---- MODULE Spec2Model ----
(***************************************************************************)
(* paquo: the proxy layer over a QuPath project.                           *)
(*   src/paquo/images.py            _ProjectImageEntryMetadata,            *)
(*                                  QuPathProjectImageEntry                *)
(*   src/paquo/objects/projects.py  _ProjectImageEntriesProxy,             *)
(*                                  QuPathProject                          *)
(* The QuPath (Java) project, its entries and their image data are the     *)
(* state; every python method is one action that writes its outcome into   *)
(* `ret` (the value returned or the exception raised).                     *)
(***************************************************************************)
EXTENDS Naturals, Sequences, FiniteSets, TLC

VARIABLES
    imageList,   \* DefaultProject: the ids of its entries, in listing order
    entries,     \* every DefaultProjectImageEntry allocated so far, by id
    handles,     \* every QuPathProjectImageEntry constructed so far, by id
    it,          \* _ProjectImageEntriesProxy._it: [list, pos]
    saves,       \* number of QuPathProjectImageEntry.save() calls
    writes,      \* number of saveImageData calls the store received
    dirtySaves,  \* number of save() calls made while isChanged() was true
    ret,         \* outcome of the last operation
    bulk         \* the bulk assignment running or last made: [pc, arg]

vars == <<imageList, entries, handles, it, saves, writes, dirtySaves, ret, bulk>>

(***************************** bounds **************************************)
MaxEntries == 2    \* entries the project may hold
MaxHandles == 3    \* Entry Handles alive at once
MaxSaves   == 2    \* save() calls in one run
MaxBuilds  == 2    \* Hierarchy constructions per handle
MaxPairs   == 2    \* pairs of a mapping assigned to entry.metadata
MaxSeq     == 2    \* elements of a sequence assigned to project.images

(************************ python and java values ***************************)
PyStr(s)  == [type |-> "str", val |-> s]
PyInt1    == [type |-> "int", val |-> "1"]
PyNone    == [type |-> "NoneType", val |-> "None"]
JNull     == [type |-> "null", val |-> ""]

StrKeys   == {PyStr("a"), PyStr("b")}
StrVals   == {PyStr(""), PyStr("v")}
PyKeys    == StrKeys \cup {PyInt1}
PyVals    == StrVals \cup {PyNone}

\* isinstance(x, str)
IsStrAlways(x) == TRUE
IsStr(x) == x.type = "str"

\* str(x) of a python value
Str(x) == [type |-> "str", val |-> x.val]

\* String(s): the java.lang.String of a python str
String(s) == [type |-> "java.lang.String", val |-> s.val]

\* str(v) of a java value (a null comes back as None)
StrOfJava(j) == IF j = JNull THEN PyStr("None") ELSE [type |-> "str", val |-> j.val]

JKeys == {String(k) : k \in StrKeys}
JVals == {String(v) : v \in StrVals}

(************************ the external entry *******************************)
EmptyMeta == [k \in {} |-> JNull]

\* Map.put
PutMetadataValueLost(m, k, v) == m
PutMetadataValue(m, k, v) ==
    [x \in (DOMAIN m) \cup {k} |-> IF x = k THEN v ELSE m[x]]

\* Map.remove
RemoveMetadataValueOthers(m, k) == [x \in (DOMAIN m) \cap {k} |-> m[x]]
RemoveMetadataValue(m, k) == [x \in (DOMAIN m) \ {k} |-> m[x]]

\* Map.get: null when the key is absent
GetMetadataValue(m, k) == IF k \in DOMAIN m THEN m[k] ELSE JNull

AllMeta == UNION {[D -> JVals] : D \in SUBSET JKeys}

(***************************** results *************************************)
NoArg == [type |-> "-", val |-> ""]

Ret(op, h, key, arg, status, val, num) ==
    [op |-> op, h |-> h, key |-> key, arg |-> arg,
     status |-> status, val |-> val, num |-> num]

\* the exceptions the code raises, by the kind the design names
TypeMismatch      == "ValueError"
KeyNotFound       == "KeyError"
UnsupportedFormat == "Exception"
BackingResourceUnavailable == "RuntimeError"
InvalidHandle     == "ValueError"

(************************ _ProjectImageEntryMetadata ***********************)
MetaOf(h) == entries[handles[h].entry].meta

SetMeta(h, m) ==
    entries' = [entries EXCEPT ![handles[h].entry].meta = m]

\* __setitem__
SetItem(h, k, v) ==
    /\ IF ~IsStr(k) \/ ~IsStr(v)
       THEN /\ ret' = Ret("setitem", h, k, v, "ValueError", NoArg, 0)
            /\ UNCHANGED entries
       ELSE /\ SetMeta(h, PutMetadataValue(MetaOf(h), String(Str(k)), String(Str(v))))
            /\ ret' = Ret("setitem", h, k, v, "ok", NoArg, 0)
    /\ UNCHANGED <<imageList, handles, it, saves, writes, dirtySaves>>

\* __delitem__
DelItem(h, k) ==
    /\ IF ~IsStr(k)
       THEN /\ ret' = Ret("delitem", h, k, NoArg, "ValueError", NoArg, 0)
            /\ UNCHANGED entries
       ELSE /\ SetMeta(h, RemoveMetadataValue(MetaOf(h), String(Str(k))))
            /\ ret' = Ret("delitem", h, k, NoArg, "ok", NoArg, 0)
    /\ UNCHANGED <<imageList, handles, it, saves, writes, dirtySaves>>

\* the outcome of __getitem__ on metadata m: <<status, value>>
GetItemOf(m, k) ==
    IF ~IsStr(k) THEN <<"ValueError", NoArg>>
    ELSE LET v == GetMetadataValue(m, String(Str(k)))
         IN IF v = JNull THEN <<"KeyError", NoArg>>
            ELSE <<"ok", StrOfJava(v)>>

\* __getitem__
GetItem(h, k) ==
    /\ LET r == GetItemOf(MetaOf(h), k)
       IN ret' = Ret("getitem", h, k, NoArg, r[1], r[2], 0)
    /\ UNCHANGED <<imageList, entries, handles, it, saves, writes, dirtySaves>>

\* __len__
MetaLen(m) == Cardinality(DOMAIN m)

LenMeta(h) ==
    /\ ret' = Ret("len", h, NoArg, NoArg, "ok", NoArg, MetaLen(MetaOf(h)))
    /\ UNCHANGED <<imageList, entries, handles, it, saves, writes, dirtySaves>>

\* clearMetadata
ClearMetadataKept(m) == m
ClearMetadata(m) == EmptyMeta

\* clear
ClearMeta(h) ==
    /\ SetMeta(h, ClearMetadata(MetaOf(h)))
    /\ ret' = Ret("clear", h, NoArg, NoArg, "ok", NoArg, 0)
    /\ UNCHANGED <<imageList, handles, it, saves, writes, dirtySaves>>

(*************************** the entry handle ******************************)
\* a DefaultProjectImageEntry as the store creates it for a file
NewEntry(f) ==
    [file |-> f, name |-> JNull, desc |-> JNull, thumb |-> FALSE, meta |-> EmptyMeta]

\* the handle QuPathProjectImageEntry.__init__ leaves for entry e
\* (hier: the cached Hierarchy, 0 when none; builds, accesses, first: how often
\* a Hierarchy was constructed, how often the property was read (counted up to
\* MaxBuilds), and the instance the first read returned)
NewHandle(e) ==
    [entry |-> e, changed |-> FALSE, hier |-> 0, builds |-> 0, accesses |-> 0,
     first |-> 0]

NoIter == [list |-> <<>>, pos |-> 1]
NoRet  == Ret("init", 0, NoArg, NoArg, "ok", NoArg, 0)
NoBulk == [pc |-> "idle", arg |-> <<>>]

\* no `project.images = ...` is running: the caller may start an operation
Idle == bulk.pc = "idle" /\ UNCHANGED bulk

(******************************* files *************************************)
\* What the external collaborators answer for a file:
\*   support  getPreferredUriImageSupport: "none" (no support), "empty" (a
\*            support without builders), "ok"
\*   build    server_builder.build() returns a server (FALSE: it throws)
\*   thumb    server.getDefaultThumbnail returns an image (FALSE: it throws)
\*   data     readImageData() of the entry returns image data (FALSE: None)
File(path, support, build, thumb, data) ==
    [path |-> path, support |-> support, build |-> build, thumb |-> thumb,
     data |-> data, display |-> path]

Sample   == File("sample.tiff", "ok", TRUE, TRUE, TRUE)
Notes    == File("notes.txt", "none", FALSE, FALSE, FALSE)
Unknown  == File("blob.bin", "empty", FALSE, FALSE, FALSE)
Corrupt  == File("corrupt.tiff", "ok", FALSE, FALSE, FALSE)
NoThumb  == File("nothumb.tiff", "ok", TRUE, FALSE, TRUE)
NoData   == File("nodata.tiff", "ok", TRUE, TRUE, FALSE)

Files == {Sample, Notes, Unknown, Corrupt, NoThumb, NoData}

\* the entry a successful add leaves in the store
Registered(f) ==
    [NewEntry(f) EXCEPT !.name = String(PyStr(f.display)), !.thumb = TRUE]

(************************ QuPathProjectImageEntry **************************)
Texts == {PyStr("x")}
Names == {PyStr("n")}

SetEntry(h, field, v) ==
    entries' = [entries EXCEPT ![handles[h].entry][field] = v]

\* image_name (getter)
ImageNameOf(e) == StrOfJava(e.name)

GetImageName(h) ==
    /\ ret' = Ret("image_name", h, NoArg, NoArg, "ok",
                  ImageNameOf(entries[handles[h].entry]), 0)
    /\ UNCHANGED <<imageList, entries, handles, it, saves, writes, dirtySaves>>

\* image_name (setter)
SetImageName(h, name) ==
    /\ SetEntry(h, "name", String(name))
    /\ ret' = Ret("set_image_name", h, NoArg, name, "ok", NoArg, 0)
    /\ UNCHANGED <<imageList, handles, it, saves, writes, dirtySaves>>

\* description (getter): the empty string when the store holds none
DescriptionOf(e) == IF e.desc = JNull THEN PyStr("") ELSE StrOfJava(e.desc)

GetDescription(h) ==
    /\ ret' = Ret("description", h, NoArg, NoArg, "ok",
                  DescriptionOf(entries[handles[h].entry]), 0)
    /\ UNCHANGED <<imageList, entries, handles, it, saves, writes, dirtySaves>>

\* description (setter): setDescription on the entry; the handle's image data
\* (self._image_data) is a different object and is not touched
MarksChanged(hd) == TRUE
DescriptionChanged(hd) == hd.changed

SetDescription(h, text) ==
    /\ SetEntry(h, "desc", String(text))
    /\ handles' = [handles EXCEPT ![h].changed = DescriptionChanged(handles[h])]
    /\ ret' = Ret("set_description", h, NoArg, text, "ok", NoArg, 0)
    /\ UNCHANGED <<imageList, it, saves, writes, dirtySaves>>

\* hierarchy (cached_property): is the value already in the instance dict
NeverCached(hd) == FALSE
HierCached(hd) == hd.hier # 0

\* the identity of the n-th Hierarchy object built for handle h
HierId(h, n) == h * (MaxBuilds + 1) + n

Counted(n) == IF n < MaxBuilds THEN n + 1 ELSE n

Hierarchy(h) ==
    /\ IF HierCached(handles[h])
       THEN /\ ret' = Ret("hierarchy", h, NoArg, NoArg, "ok", NoArg, handles[h].hier)
            /\ handles' = [handles EXCEPT ![h].accesses = Counted(@)]
       ELSE /\ handles[h].builds < MaxBuilds
            /\ LET id == HierId(h, handles[h].builds + 1)
               IN /\ handles' = [handles EXCEPT
                        ![h].hier = id,
                        ![h].builds = @ + 1,
                        ![h].accesses = Counted(@),
                        ![h].first = IF @ = 0 THEN id ELSE @]
                  /\ ret' = Ret("hierarchy", h, NoArg, NoArg, "ok", NoArg, id)
    /\ UNCHANGED <<imageList, entries, it, saves, writes, dirtySaves>>

\* an annotation is added or removed through the cached Hierarchy: the image
\* data it is bound to reports isChanged() from then on
HierarchyModify(h) ==
    /\ handles[h].hier # 0
    /\ handles' = [handles EXCEPT ![h].changed = TRUE]
    /\ ret' = Ret("hierarchy_modify", h, NoArg, NoArg, "ok", NoArg, handles[h].hier)
    /\ UNCHANGED <<imageList, entries, it, saves, writes, dirtySaves>>

\* self._image_data.isChanged()
ChangedAlways(hd) == TRUE
IsChanged(hd) == hd.changed

\* the image-data writes save() performs on handle hd
SaveWrites(hd) == IF IsChanged(hd) THEN 1 ELSE 0

\* save: saveImageData writes the image data and resets its changed flag
Save(h) ==
    /\ saves < MaxSaves
    /\ saves' = saves + 1
    /\ writes' = writes + SaveWrites(handles[h])
    /\ handles' = [handles EXCEPT
                     ![h].changed = IF SaveWrites(handles[h]) = 1 THEN FALSE ELSE @]
    /\ dirtySaves' = IF handles[h].changed THEN dirtySaves + 1 ELSE dirtySaves
    /\ ret' = Ret("save", h, NoArg, NoArg, "ok", NoArg, SaveWrites(handles[h]))
    /\ UNCHANGED <<imageList, entries, it>>

(****************** QuPathProjectImageEntry.metadata = value ***************)
\* the dicts a caller assigns: their pairs in iteration order, keys distinct
Pair(k, v) == [k |-> k, v |-> v]

Mappings ==
    {m \in UNION {[1..n -> {Pair(k, v) : k \in PyKeys, v \in PyVals}] : n \in 0..MaxPairs} :
        \A i, j \in DOMAIN m : i # j => m[i].k # m[j].k}

\* MutableMapping.update: self[key] = other[key] for key in other, until a
\* __setitem__ raises; <<the metadata then, "ok" or the exception>>
RECURSIVE UpdateFrom(_, _, _)
UpdateFrom(meta, m, i) ==
    IF i > Len(m) THEN <<meta, "ok">>
    ELSE IF ~IsStr(m[i].k) \/ ~IsStr(m[i].v) THEN <<meta, "ValueError">>
    ELSE UpdateFrom(PutMetadataValue(meta, String(Str(m[i].k)), String(Str(m[i].v))),
                    m, i + 1)

\* metadata (setter): self._metadata.clear(), then self._metadata.update(value)
SetMetadata(h, m) ==
    /\ bulk.pc = "idle"
    /\ LET r == UpdateFrom(ClearMetadata(MetaOf(h)), m, 1)
       IN /\ SetMeta(h, r[1])
          /\ ret' = Ret("set_metadata", h, NoArg, NoArg, r[2], NoArg, Len(m))
    /\ bulk' = [pc |-> "idle", arg |-> m]
    /\ UNCHANGED <<imageList, handles, it, saves, writes, dirtySaves>>

(***************** the metadata proxy of one entry, on its own *************)
InitMeta ==
    /\ imageList = <<1>>
    /\ \E m \in AllMeta : entries = <<[Registered(Sample) EXCEPT !.meta = m]>>
    /\ handles = <<NewHandle(1)>>
    /\ it = NoIter
    /\ saves = 0 /\ writes = 0 /\ dirtySaves = 0
    /\ ret = NoRet
    /\ bulk = NoBulk

DoSetItem  == \E h \in DOMAIN handles, k \in PyKeys, v \in PyVals : SetItem(h, k, v)
DoDelItem  == \E h \in DOMAIN handles, k \in PyKeys : DelItem(h, k)
DoGetItem  == \E h \in DOMAIN handles, k \in PyKeys : GetItem(h, k)
DoLenMeta  == \E h \in DOMAIN handles : LenMeta(h)
DoClearMeta == \E h \in DOMAIN handles : ClearMeta(h)
DoSetMetadata == \E h \in DOMAIN handles, m \in Mappings : SetMetadata(h, m)

NextMeta ==
    \/ Idle /\ DoSetItem
    \/ Idle /\ DoDelItem
    \/ Idle /\ DoGetItem
    \/ Idle /\ DoLenMeta
    \/ Idle /\ DoClearMeta
    \/ DoSetMetadata

SpecMeta == InitMeta /\ [][NextMeta]_vars

(*************************** QuPathProject.save ****************************)
\* save: self._project.syncChanges() writes the project file; what it does to
\* the Entry Handles
SyncChangesSavesEntries(hs) == [h \in DOMAIN hs |-> [hs[h] EXCEPT !.changed = FALSE]]
SyncChanges(hs) == hs

ProjectSave ==
    /\ handles' = SyncChanges(handles)
    /\ ret' = Ret("project_save", 0, NoArg, NoArg, "ok", NoArg, 0)
    /\ UNCHANGED <<imageList, entries, it, saves, writes, dirtySaves>>

(***************** the handles of one entry, on their own ******************)
\* one entry of a loaded project, wrapped twice (two passes over the images)
InitEntry ==
    /\ imageList = <<1>>
    /\ entries = <<Registered(Sample)>>
    /\ handles = <<NewHandle(1), NewHandle(1)>>
    /\ it = NoIter
    /\ saves = 0 /\ writes = 0 /\ dirtySaves = 0
    /\ ret = NoRet
    /\ bulk = NoBulk

DoHierarchy       == \E h \in DOMAIN handles : Hierarchy(h)
DoHierarchyModify == \E h \in DOMAIN handles : HierarchyModify(h)
DoSave            == \E h \in DOMAIN handles : Save(h)
DoSetDescription  == \E h \in DOMAIN handles, t \in Texts : SetDescription(h, t)
DoGetDescription  == \E h \in DOMAIN handles : GetDescription(h)
DoSetImageName    == \E h \in DOMAIN handles, n \in Names : SetImageName(h, n)
DoGetImageName    == \E h \in DOMAIN handles : GetImageName(h)
DoSetOne          == \E h \in DOMAIN handles : SetItem(h, PyStr("a"), PyStr("v"))

NextEntry ==
    \/ Idle /\ DoHierarchy
    \/ Idle /\ DoHierarchyModify
    \/ Idle /\ DoSave
    \/ Idle /\ DoSetDescription
    \/ Idle /\ DoGetDescription
    \/ Idle /\ DoSetImageName
    \/ Idle /\ DoGetImageName
    \/ Idle /\ DoSetOne
    \/ Idle /\ ProjectSave

SpecEntry == InitEntry /\ [][NextEntry]_vars

(************************ _ProjectImageEntriesProxy ************************)
\* the values a caller can hand to discard and `in`
HandleRef(h) == [kind |-> "QuPathProjectImageEntry", id |-> h]
JavaRef(e)   == [kind |-> "DefaultProjectImageEntry", id |-> e]
Other        == [kind |-> "str", id |-> 0]

Refs == {HandleRef(h) : h \in DOMAIN handles}
           \cup {JavaRef(e) : e \in DOMAIN entries} \cup {Other}

\* the external entry a value stands for (0: none)
EntryOfRef(x) ==
    IF x.kind = "QuPathProjectImageEntry" THEN handles[x.id].entry
    ELSE IF x.kind = "DefaultProjectImageEntry" THEN x.id ELSE 0

InList(list, e) == \E i \in DOMAIN list : list[i] = e

\* is x an entry the store currently lists
IsMember(x) == InList(imageList, EntryOfRef(x))

\* readImageData() of entry e returns image data
HasImageDataAlways(e) == TRUE
HasImageData(e) == entries[e].file.data

\* __len__: project.size()
ProjectSize == Len(imageList)

LenImages ==
    /\ ret' = Ret("len_images", 0, NoArg, NoArg, "ok", NoArg, ProjectSize)
    /\ UNCHANGED <<imageList, entries, handles, it, saves, writes, dirtySaves>>

\* discard: `pass`
Discarded(list, x) == list

Discard(x) ==
    /\ imageList' = Discarded(imageList, x)
    /\ ret' = Ret("discard", x.id, NoArg, [type |-> x.kind, val |-> ""], "ok", NoArg, 0)
    /\ UNCHANGED <<entries, handles, it, saves, writes, dirtySaves>>

\* __contains__
ContainsOf(x) ==
    IF x.kind # "DefaultProjectImageEntry" THEN FALSE ELSE FALSE

Contains(x) ==
    /\ ret' = Ret("contains", x.id, NoArg, [type |-> x.kind, val |-> ""], "ok", NoArg,
                  IF ContainsOf(x) THEN 1 ELSE 0)
    /\ UNCHANGED <<imageList, entries, handles, it, saves, writes, dirtySaves>>

\* support.getBuilders()
BuildersAny(f) == <<f.path>>
Builders(f) == IF f.support = "ok" THEN <<f.path>> ELSE <<>>

\* project.addImage(server_builder)
AddImageNowhere(list, e) == list
AddImage(list, e) == Append(list, e)

\* add
Add(f) ==
    LET e == Len(entries) + 1
        h == Len(handles) + 1
        arg == PyStr(f.path)
    IN
    IF f.support = "none" \/ Builders(f) = <<>>
    THEN /\ ret' = Ret("add", 0, NoArg, arg, "Exception", NoArg, 0)
         /\ UNCHANGED <<imageList, entries, handles, it, saves, writes, dirtySaves>>
    ELSE
      /\ Len(imageList) < MaxEntries
      /\ imageList' = AddImage(imageList, e)
      /\ UNCHANGED <<it, saves, writes, dirtySaves>>
      /\ IF ~f.build
         THEN \* server_builder.build() throws
              /\ entries' = Append(entries, NewEntry(f))
              /\ ret' = Ret("add", 0, NoArg, arg, "IOException", NoArg, 0)
              /\ UNCHANGED handles
         ELSE IF ~f.thumb
         THEN \* getDefaultThumbnail throws, the name is set
              /\ entries' = Append(entries,
                     [NewEntry(f) EXCEPT !.name = String(PyStr(f.display))])
              /\ ret' = Ret("add", 0, NoArg, arg, "IOException", NoArg, 0)
              /\ UNCHANGED handles
         ELSE /\ entries' = Append(entries, Registered(f))
              /\ IF ~f.data
                 THEN \* QuPathProjectImageEntry.__init__ raises
                      /\ ret' = Ret("add", 0, NoArg, arg, "RuntimeError", NoArg, 0)
                      /\ UNCHANGED handles
                 ELSE /\ Len(handles) < MaxHandles
                      /\ handles' = Append(handles, NewHandle(e))
                      /\ ret' = Ret("add", h, NoArg, arg, "ok", NoArg, 0)

\* __iter__: a new iterator over getImageList(), kept in self._it
Iter ==
    /\ it' = [list |-> imageList, pos |-> 1]
    /\ ret' = Ret("iter", 0, NoArg, NoArg, "ok", NoArg, 0)
    /\ UNCHANGED <<imageList, entries, handles, saves, writes, dirtySaves>>

\* __next__
NextEntryOf ==
    /\ IF it.pos > Len(it.list)
       THEN /\ ret' = Ret("next", 0, NoArg, NoArg, "StopIteration", NoArg, 0)
            /\ UNCHANGED <<it, handles>>
       ELSE LET e == it.list[it.pos]
            IN /\ it' = [it EXCEPT !.pos = @ + 1]
               /\ IF HasImageData(e)
                  THEN /\ Len(handles) < MaxHandles
                       /\ handles' = Append(handles, NewHandle(e))
                       /\ ret' = Ret("next", Len(handles) + 1, NoArg, NoArg, "ok", NoArg, e)
                  ELSE /\ ret' = Ret("next", 0, NoArg, NoArg, "RuntimeError", NoArg, e)
                       /\ UNCHANGED handles
    /\ UNCHANGED <<imageList, entries, saves, writes, dirtySaves>>

\* one full pass, `for entry in project.images`: __iter__, then __next__ until
\* it raises; the entries of the handles the loop body receives
RECURSIVE PassFrom(_, _)
PassFrom(list, pos) ==
    IF pos > Len(list) THEN <<>>
    ELSE IF HasImageData(list[pos]) THEN <<list[pos]>> \o PassFrom(list, pos + 1)
    ELSE <<>>

FullPass == PassFrom(imageList, 1)

\* QuPathProjectImageEntry(x), called directly
Wrap(x) ==
    /\ IF x.kind # "DefaultProjectImageEntry"
       THEN /\ ret' = Ret("wrap", 0, NoArg, [type |-> x.kind, val |-> ""],
                          "ValueError", NoArg, x.id)
            /\ UNCHANGED handles
       ELSE IF ~HasImageData(x.id)
       THEN /\ ret' = Ret("wrap", 0, NoArg, [type |-> x.kind, val |-> ""],
                          "RuntimeError", NoArg, x.id)
            /\ UNCHANGED handles
       ELSE /\ Len(handles) < MaxHandles
            /\ handles' = Append(handles, NewHandle(x.id))
            /\ ret' = Ret("wrap", Len(handles) + 1, NoArg, [type |-> x.kind, val |-> ""],
                          "ok", NoArg, x.id)
    /\ UNCHANGED <<imageList, entries, it, saves, writes, dirtySaves>>

\* `for a in project.images: for b in project.images: ...` on entries that all
\* have image data: the pairs (a, b) the inner body sees. i is self._it when
\* the outer loop calls __next__; the inner loop's __iter__ replaces self._it
\* and its __next__ calls run it to the end.
RECURSIVE OuterLoop(_, _)
OuterLoop(i, pairs) ==
    IF i.pos > Len(i.list) THEN pairs
    ELSE OuterLoop([list |-> imageList, pos |-> Len(imageList) + 1],
                   pairs + Len(imageList))

NestedPairs == OuterLoop([list |-> imageList, pos |-> 1], 0)

\* what the traversal that owns iterator i has still to yield
Remaining(i) == SubSeq(i.list, i.pos, Len(i.list))

(****************************** QuPathProject ******************************)
\* __init__: createProject for a new path, loadProject for a project file
Init ==
    /\ \/ imageList = <<>> /\ entries = <<>>
       \/ imageList = <<1>> /\ entries = <<Registered(Sample)>>
    /\ handles = <<>>
    /\ it = NoIter
    /\ saves = 0 /\ writes = 0 /\ dirtySaves = 0
    /\ ret = NoRet
    /\ bulk = NoBulk

DoAdd      == \E f \in Files : Add(f)
DoDiscard  == \E x \in Refs : Discard(x)
DoContains == \E x \in Refs : Contains(x)
DoWrap     == \E x \in Refs : Wrap(x)

Next ==
    \/ Idle /\ DoAdd
    \/ Idle /\ DoDiscard
    \/ Idle /\ DoContains
    \/ Idle /\ LenImages
    \/ Idle /\ Iter
    \/ Idle /\ NextEntryOf
    \/ Idle /\ DoSetOne
    \/ Idle /\ DoClearMeta

Spec == Init /\ [][Next]_vars

(********************* QuPathProject.images = images ***********************)
\* the sequences a caller assigns: Entry Handles and other values
Seqs ==
    UNION {[1..n -> {HandleRef(h) : h \in DOMAIN handles} \cup {Other}] : n \in 0..MaxSeq}

\* the class projects.py imports from paquo.objects.images: the Entry Handle
ProjectImageEntry == "QuPathProjectImageEntry"

\* isinstance(image, ProjectImageEntry) for every image
AllHandlesUnchecked(seq) == TRUE
AllHandles(seq) == \A i \in DOMAIN seq : seq[i].kind = ProjectImageEntry

\* _images after the checking loop: nothing is ever appended to it
Collected(seq) == <<>>

\* the setter up to the call of self.images.clear()
SetImages(seq) ==
    /\ bulk.pc = "idle"
    /\ IF ~AllHandles(seq)
       THEN /\ bulk' = [pc |-> "idle", arg |-> seq]
            /\ ret' = Ret("set_images", 0, NoArg, NoArg, "TypeError", NoArg, Len(seq))
       ELSE /\ bulk' = [pc |-> "clear", arg |-> seq]
            /\ ret' = Ret("set_images", 0, NoArg, NoArg, "running", NoArg, Len(seq))
    /\ UNCHANGED <<imageList, entries, handles, it, saves, writes, dirtySaves>>

\* MutableSet.clear: `while True: self.pop()`; pop begins with it = iter(self)
PopIter ==
    /\ bulk.pc = "clear"
    /\ it' = [list |-> imageList, pos |-> 1]
    /\ bulk' = [bulk EXCEPT !.pc = "pop"]
    /\ UNCHANGED <<imageList, entries, handles, saves, writes, dirtySaves, ret>>

\* pop goes on with value = next(it) and self.discard(value). StopIteration
\* becomes the KeyError that ends clear; the setter then adds the elements of
\* _images and returns. The handle __next__ makes is dropped with the value.
PopNext ==
    /\ bulk.pc = "pop"
    /\ IF it.pos > Len(it.list)
       THEN /\ bulk' = [bulk EXCEPT !.pc = "idle"]
            /\ ret' = [ret EXCEPT !.status =
                          IF Collected(bulk.arg) = <<>> THEN "ok" ELSE "TypeError"]
            /\ UNCHANGED <<imageList, it>>
       ELSE LET e == it.list[it.pos]
            IN /\ it' = [it EXCEPT !.pos = @ + 1]
               /\ IF ~HasImageData(e)
                  THEN /\ bulk' = [bulk EXCEPT !.pc = "idle"]
                       /\ ret' = [ret EXCEPT !.status = "RuntimeError"]
                       /\ UNCHANGED imageList
                  ELSE /\ imageList' = Discarded(imageList, JavaRef(e))
                       /\ bulk' = [bulk EXCEPT !.pc = "clear"]
                       /\ UNCHANGED ret
    /\ UNCHANGED <<entries, handles, saves, writes, dirtySaves>>

\* a project, new or holding an entry, and a handle on an entry: the
\* project's own, or one of another project when this one is new
InitReplace ==
    /\ entries = <<Registered(Sample)>>
    /\ imageList \in {<<>>, <<1>>}
    /\ handles = <<NewHandle(1)>>
    /\ it = NoIter
    /\ saves = 0 /\ writes = 0 /\ dirtySaves = 0
    /\ ret = NoRet
    /\ bulk = NoBulk

DoSetImages == \E seq \in Seqs : SetImages(seq)

NextReplace ==
    \/ Idle /\ DoAdd
    \/ Idle /\ LenImages
    \/ DoSetImages
    \/ PopIter
    \/ PopNext

\* the setter runs on the caller's thread: a loop that can go on does
SpecReplace ==
    InitReplace /\ [][NextReplace]_vars /\ WF_vars(PopIter) /\ WF_vars(PopNext)

(************* the ways to an Entry Handle: add, a pass, directly **********)
NextWrap ==
    \/ Idle /\ DoAdd
    \/ Idle /\ Iter
    \/ Idle /\ NextEntryOf
    \/ Idle /\ DoWrap

SpecWrap == Init /\ [][NextWrap]_vars

(******************************* claims ************************************)
\* the entry behind the handle the last operation was called on
RetEntry == handles[ret.h].entry

\* C1: metadata[k] = v with strings k, v succeeds and a following metadata[k]
\* returns v, whatever k held before; del metadata[k] makes a following
\* metadata[k] fail with KeyNotFound; an operation that does not write, delete
\* or clear k (clear and the bulk assignment do) leaves what metadata[k]
\* returns as it was.
C1_RoundTrip ==
    [][\A h \in DOMAIN handles, k \in StrKeys :
         LET before == GetItemOf(MetaOf(h), k)
             after  == GetItemOf(MetaOf(h)', k)
         IN IF ret'.op = "setitem" /\ ret'.key = k /\ IsStr(ret'.arg)
            THEN ret'.status = "ok" /\ after = <<"ok", ret'.arg>>
            ELSE IF ret'.op = "delitem" /\ ret'.key = k
            THEN ret'.status = "ok" /\ after = <<KeyNotFound, NoArg>>
            ELSE IF ret'.op \in {"clear", "set_metadata"} THEN TRUE
            ELSE after = before]_vars

\* "a" set to "v" and read back, with "b" stored beside it
C1_Witness ==
    /\ ret.op = "setitem" /\ ret.status = "ok"
    /\ ret.key = PyStr("a") /\ ret.arg = PyStr("v")
    /\ GetItemOf(MetaOf(ret.h), PyStr("a")) = <<"ok", PyStr("v")>>
    /\ MetaLen(MetaOf(ret.h)) = 2

\* C2: metadata[k] = v with a non-string k or v fails with TypeMismatch and
\* leaves every entry's metadata as it was; all stored keys and values are
\* strings in every reachable state.
StoredStrings ==
    \A e \in DOMAIN entries : \A k \in DOMAIN entries[e].meta :
        /\ k.type = "java.lang.String"
        /\ entries[e].meta[k].type = "java.lang.String"
        /\ Str(k) \in StrKeys
        /\ Str(entries[e].meta[k]) \in StrVals

C2_TypeMismatch ==
    /\ []StoredStrings
    /\ [][(ret'.op = "setitem" /\ (ret'.key \notin StrKeys \/ ret'.arg \notin StrVals))
            => (ret'.status = TypeMismatch /\ entries' = entries)]_vars

\* a rejected write on non-empty metadata
C2_Witness ==
    /\ ret.op = "setitem" /\ ret.status = TypeMismatch
    /\ ret.key = PyInt1
    /\ MetaLen(MetaOf(ret.h)) = 2

\* C3: a successful add makes the collection one longer, keeps the entries
\* that were there at their places, and returns a handle on the new entry
\* whose image_name is non-empty and whose metadata is empty.
C3_AddSuccess ==
    [][(ret'.op = "add" /\ ret'.status = "ok") =>
         /\ ProjectSize' = ProjectSize + 1
         /\ \A i \in DOMAIN imageList : imageList'[i] = imageList[i]
         /\ ret'.h \in (DOMAIN handles') \ (DOMAIN handles)
         /\ LET e == handles'[ret'.h].entry
            IN /\ InList(imageList', e) /\ ~InList(imageList, e)
               /\ ImageNameOf(entries'[e]).val # ""
               /\ MetaLen(entries'[e].meta) = 0]_vars

\* a second entry added to a project that held one
C3_Witness ==
    /\ ret.op = "add" /\ ret.status = "ok" /\ ret.arg = PyStr(Sample.path)
    /\ ProjectSize = 2
    /\ handles[ret.h].entry = imageList[2]

\* C4: add of a file without image support, or with an empty builder list,
\* fails with UnsupportedFormat and the store is as it was.
FileOf(arg) == CHOOSE f \in Files : f.path = arg.val

C4_Unsupported ==
    [][(ret'.op = "add" /\ FileOf(ret'.arg).support \in {"none", "empty"}) =>
         /\ ret'.status = UnsupportedFormat
         /\ imageList' = imageList
         /\ entries' = entries
         /\ ProjectSize' = ProjectSize]_vars

\* both kinds of unsupported file, on a project that holds an entry
C4_Witness ==
    /\ ret.op = "add" /\ ret.status = UnsupportedFormat
    /\ ret.arg = PyStr(Unknown.path)
    /\ ProjectSize >= 1

\* the value the last discard or `in` was given
RetRef == [kind |-> ret.arg.type, id |-> ret.h]

\* C5: `x in project.images` is true exactly for the current members.
C5_ContainsMembers ==
    ret.op = "contains" => ((ret.num = 1) <=> IsMember(RetRef))

\* C6: discard of a present entry removes it (the collection is one shorter
\* and a full pass no longer yields it); discard of anything else changes
\* nothing.
C6_DiscardRemoves ==
    [][ret'.op = "discard" =>
         LET x == RetRef' IN
         IF IsMember(x)
         THEN /\ ProjectSize' = ProjectSize - 1
              /\ ~InList(FullPass', EntryOfRef(x))
         ELSE imageList' = imageList]_vars

\* C7: len(project.images) is the store's entry count and the number of
\* handles one full pass yields, and the pass follows the listing order.
C7_LenIsPass ==
    /\ ProjectSize = Len(imageList)
    /\ Len(FullPass) = ProjectSize
    /\ FullPass = imageList

\* C8: per handle the Hierarchy is constructed at most once, exactly once iff
\* the property was read, and every read returns the instance of the first.
C8_HierarchyOnce ==
    /\ \A h \in DOMAIN handles :
          /\ handles[h].builds <= 1
          /\ (handles[h].builds = 1) <=> (handles[h].accesses >= 1)
          /\ (handles[h].accesses >= 1) => handles[h].hier = handles[h].first
    /\ ret.op = "hierarchy" => (ret.num # 0 /\ ret.num = handles[ret.h].first)

\* a repeated read on a handle that was changed and saved in between, after a
\* description write
C8_Witness ==
    /\ ret.op = "hierarchy"
    /\ handles[ret.h].accesses >= 2
    /\ writes >= 1
    /\ entries[RetEntry].desc # JNull

\* C9: a save() writes the image data once if it is reported changed and not
\* at all otherwise; the writes the store received are the saves made while
\* the flag was set.
C9_DirtyGate ==
    /\ [](writes = dirtySaves /\ writes <= saves)
    /\ [][saves' = saves + 1 =>
            /\ writes' = writes + (IF handles[ret'.h].changed THEN 1 ELSE 0)
            /\ ret'.num = writes' - writes]_vars

\* two saves, the first with the flag set, the second right after it
C9_Witness ==
    /\ ret.op = "save" /\ ret.num = 0
    /\ saves = 2 /\ writes = 1

\* C10 as stated: a description write on a handle without unsaved changes
\* makes the next save() write the image data once.
C10_DescriptionMarksChanged ==
    [][(ret'.op = "set_description" /\ SaveWrites(handles[ret'.h]) = 0)
         => SaveWrites(handles'[ret'.h]) = 1]_vars

\* C10, amended: a description write stores the text in the entry and leaves
\* the image data's changed flag as it was, so on a handle without unsaved
\* changes the next save() performs no image-data write.
C10_DescriptionKeepsFlag ==
    [][ret'.op = "set_description" =>
         /\ DescriptionOf(entries'[handles[ret'.h].entry]) = ret'.arg
         /\ SaveWrites(handles'[ret'.h]) = SaveWrites(handles[ret'.h])
         /\ writes' = writes]_vars

\* a save that wrote nothing although the description had been set
C10_Witness ==
    /\ ret.op = "save" /\ ret.num = 0
    /\ writes = 0
    /\ DescriptionOf(entries[RetEntry]) = PyStr("x")
    /\ handles[ret.h].hier = 0

\* the metadata behind handle h after the step
MetaAfter(h) == entries'[handles'[h].entry].meta

\* the longest prefix of mapping m whose keys and values are all strings
RECURSIVE StrPrefixLen(_, _)
StrPrefixLen(m, i) ==
    IF i > Len(m) \/ m[i].k \notin StrKeys \/ m[i].v \notin StrVals THEN i - 1
    ELSE StrPrefixLen(m, i + 1)

\* C13: entry.metadata = m leaves exactly the pairs of the longest all-string
\* prefix of m in the store, nothing of what was stored before, and fails
\* with TypeMismatch iff that prefix is not the whole of m.
C13_BulkMetadata ==
    [][ret'.op = "set_metadata" =>
         LET m == bulk'.arg
             n == StrPrefixLen(m, 1)
             meta == MetaAfter(ret'.h)
         IN /\ DOMAIN meta = {String(m[i].k) : i \in 1..n}
            /\ \A i \in 1..n : meta[String(m[i].k)] = String(m[i].v)
            /\ (ret'.status = TypeMismatch) <=> (n < Len(m))
            /\ (ret'.status = "ok") <=> (n = Len(m))]_vars

\* a mapping whose second pair is rejected, assigned over other content
C13_Witness ==
    /\ ret.op = "set_metadata" /\ ret.status = TypeMismatch
    /\ Len(bulk.arg) = 2
    /\ bulk.arg[1] = Pair(PyStr("a"), PyStr("v"))
    /\ MetaOf(ret.h) = [k \in {String(PyStr("a"))} |-> String(PyStr("v"))]

\* C16: clear() leaves no key, whatever was stored: len is 0 and every get
\* fails with KeyNotFound; a set made on the cleared proxy is read back.
C16_Clear ==
    /\ [][ret'.op = "clear" =>
            /\ ret'.status = "ok"
            /\ MetaLen(MetaAfter(ret'.h)) = 0
            /\ \A k \in StrKeys : GetItemOf(MetaAfter(ret'.h), k) = <<KeyNotFound, NoArg>>]_vars
    /\ [][(ret.op = "clear" /\ ret'.op = "setitem" /\ ret'.h = ret.h
              /\ ret'.key \in StrKeys /\ ret'.arg \in StrVals) =>
            /\ ret'.status = "ok"
            /\ GetItemOf(MetaAfter(ret'.h), ret'.key) = <<"ok", ret'.arg>>
            /\ MetaLen(MetaAfter(ret'.h)) = 1]_vars

\* the proxy cleared after a mapping of two pairs had been assigned
C16_Witness ==
    /\ ret.op = "clear"
    /\ MetaLen(MetaOf(ret.h)) = 0
    /\ Len(bulk.arg) = 2 /\ StrPrefixLen(bulk.arg, 1) = 2

\* C20: del metadata[k] of a string key that is not stored raises nothing
\* and leaves the stored keys and values as they were.
C20_DeleteAbsent ==
    [][(ret'.op = "delitem" /\ ret'.key \in StrKeys
          /\ String(ret'.key) \notin DOMAIN MetaOf(ret'.h)) =>
         /\ ret'.status = "ok"
         /\ entries' = entries]_vars

\* "a" deleted while only "b" is stored
C20_Witness ==
    /\ ret.op = "delitem" /\ ret.status = "ok" /\ ret.key = PyStr("a")
    /\ DOMAIN MetaOf(ret.h) = {String(PyStr("b"))}

\* C14: QuPathProjectImageEntry(x) fails with InvalidHandle when x is no
\* external entry and with BackingResourceUnavailable when the entry has no
\* image data, and constructs no handle then; every handle there is wraps an
\* external entry that has image data.
C14_NoOrphans ==
    /\ [](\A h \in DOMAIN handles :
             /\ handles[h].entry \in DOMAIN entries
             /\ entries[handles[h].entry].file.data)
    /\ [][ret'.op = "wrap" =>
            /\ ret'.arg.type # "DefaultProjectImageEntry"
                 => (ret'.status = InvalidHandle /\ handles' = handles)
            /\ (ret'.arg.type = "DefaultProjectImageEntry"
                  /\ ~entries[ret'.num].file.data)
                 => (ret'.status = BackingResourceUnavailable /\ handles' = handles)
            /\ (ret'.arg.type = "DefaultProjectImageEntry"
                  /\ entries[ret'.num].file.data)
                 => (ret'.status = "ok" /\ handles'[ret'.h].entry = ret'.num)]_vars

\* the entry a failed add left in the store is refused, beside a handle
\* that exists
C14_Witness ==
    /\ ret.op = "wrap" /\ ret.status = BackingResourceUnavailable
    /\ InList(imageList, ret.num)
    /\ Len(handles) >= 1

\* C15: project.save() performs no image-data write and leaves every Entry
\* Handle's changed flag and every entry's metadata, name and description
\* as they were.
C15_ProjectSaveOnly ==
    [][ret'.op = "project_save" =>
         /\ writes' = writes
         /\ saves' = saves
         /\ \A h \in DOMAIN handles : handles'[h].changed = handles[h].changed
         /\ entries' = entries]_vars

\* the project saved while a handle has unsaved image-data changes
C15_Witness ==
    /\ ret.op = "project_save"
    /\ \E h \in DOMAIN handles : handles[h].changed
    /\ \E h \in DOMAIN handles : ~handles[h].changed
    /\ writes = 0

\* C19: an add that raises leaves the number of entries as it was.
C19_AddAllOrNothing ==
    [][(ret'.op = "add" /\ ret'.status # "ok") => ProjectSize' = ProjectSize]_vars

\* C18: a traversal started while an earlier one is partly consumed leaves
\* what the earlier one has still to yield as it was, and a nested loop over
\* n entries sees n * n pairs.
AllReadable == \A i \in DOMAIN imageList : entries[imageList[i]].file.data

C18_IndependentTraversals ==
    /\ [](AllReadable => NestedPairs = ProjectSize * ProjectSize)
    /\ [][(ret'.op = "iter" /\ it.pos > 1 /\ it.pos <= Len(it.list))
            => Remaining(it') = Remaining(it)]_vars

\* the entries of the handles in sequence seq
EntriesOf(seq) == [i \in DOMAIN seq |-> EntryOfRef(seq[i])]

\* C11: when project.images = seq has returned, the collection holds exactly
\* the entries of seq, in seq's order, and nothing of what it held before.
C11_BulkReplace ==
    (ret.op = "set_images" /\ ret.status = "ok") =>
        /\ ProjectSize = Len(bulk.arg)
        /\ imageList = EntriesOf(bulk.arg)

\* the first element of seq that is no Entry Handle
FirstBad(seq) ==
    CHOOSE i \in DOMAIN seq :
        /\ seq[i].kind # "QuPathProjectImageEntry"
        /\ \A j \in 1..(i - 1) : seq[j].kind = "QuPathProjectImageEntry"

HasBad(seq) == \E i \in DOMAIN seq : seq[i].kind # "QuPathProjectImageEntry"

\* C12 as stated: the assignment of a sequence with an element that is no
\* Entry Handle fails with TypeMismatch, the previous entries cleared and
\* the elements before the offending one added.
C12_PartialReplace ==
    [][(ret'.op = "set_images" /\ bulk.pc = "idle" /\ HasBad(bulk'.arg)) =>
         /\ ret'.status = "TypeError"
         /\ imageList' = EntriesOf(SubSeq(bulk'.arg, 1, FirstBad(bulk'.arg) - 1))]_vars

\* C12, amended: the assignment of a sequence with an element that is no
\* Entry Handle fails with TypeMismatch before anything is cleared or added:
\* the collection is exactly what it was before the assignment.
C12_RejectedUnchanged ==
    [][(ret'.op = "set_images" /\ bulk.pc = "idle" /\ HasBad(bulk'.arg)) =>
         /\ ret'.status = "TypeError"
         /\ bulk'.pc = "idle"
         /\ imageList' = imageList
         /\ entries' = entries]_vars

\* a handle followed by a string, assigned to a project that holds an entry
C12_Witness ==
    /\ ret.op = "set_images" /\ ret.status = "TypeError"
    /\ Len(bulk.arg) = 2
    /\ bulk.arg[1].kind = "QuPathProjectImageEntry"
    /\ bulk.arg[2] = Other
    /\ ProjectSize >= 1

\* C17: project.images = seq returns or raises after finitely many steps.
C17_Terminates == (bulk.pc # "idle") ~> (bulk.pc = "idle")

====
